---------------------------- MODULE Spec2Model ----------------------------
(***************************************************************************)
(* Model of the stream consumer of watari-ai/lobby:                        *)
(*   - useBackendSync  (hooks/useBackendSync.ts, src/unnamed/part_011):    *)
(*     WebSocket session with bounded auto-reconnect, message decoding;    *)
(*   - useLobbyStore   (stores/lobbyStore.ts, src/unnamed/part_004);       *)
(*   - Live2DViewer    (frontend/src/components/Live2DViewer.tsx):         *)
(*     target update, interpolation loop, motion playback.                 *)
(*                                                                         *)
(* All callbacks run on the browser's single event loop, so each handler   *)
(* is one atomic action.  The WebSocket object follows the WHATWG          *)
(* interface: close() on a CONNECTING or OPEN socket makes it CLOSING and  *)
(* its close event is dispatched by a later task.                          *)
(***************************************************************************)
EXTENDS Integers, Sequences, FiniteSets, TLC

(***************************************************************************)
(* Bounds of the model and options of the hook.                            *)
(***************************************************************************)
\* options.maxReconnectAttempts (default 10); a small value keeps the run finite
MaxReconnectAttempts == 2
\* sockets the model lets the session create: enough for the initial attempt,
\* every retry, and two more
MaxSockets == MaxReconnectAttempts + 2
\* actions recorded per socket
MaxSent == 2
\* options.autoReconnect as BackendProvider passes it
AutoReconnect == TRUE

VARIABLES
    phase,                  \* "init" | "mounted" | "unmounted": the hook's effect
    socks,                  \* every WebSocket the hook created, by creation order
    wsRef,                  \* wsRef.current: 0 (null) or an index of socks
    timers,                 \* ids of pending window.setTimeout(connect, ...) timers
    timerSeq,               \* ids handed out by setTimeout so far
    reconnectTimeoutRef,    \* reconnectTimeoutRef.current: 0 (null) or a timer id
    reconnectAttemptsRef,   \* reconnectAttemptsRef.current
    connected,              \* useLobbyStore.connected
    manualSock,             \* history: socket created by the latest reconnect(), 0 if none
    live2dParams,           \* useLobbyStore.live2dParams: parameter name -> value
    expression,             \* useLobbyStore.expression
    subtitleText,           \* useLobbyStore.subtitle.currentText
    backgroundSource,       \* useLobbyStore.background.source
    targetParams,           \* Live2DViewer targetParamsRef.current
    lastMsg,                \* history: digest of the message event handled last
    repeated,               \* history: that message was the one handled just before it
    handlerRaised,          \* history: a message handler let an exception escape
    lastSeen,               \* history: name -> value of the latest message that mentions it (seeded with the defaults)
    lastTs,                 \* history: timestamp_ms of the frame handled last, 0 before any
    outOfOrder,             \* history: a frame arrived with a timestamp_ms below that of the frame before it
    motionAsked,            \* history: the motion names that motion messages and frames have carried
    modelLoad,              \* Live2DViewer: "loading" | "ready" | "failed" (modelRef.current set when ready)
    motionApi,              \* typeof model.motion === 'function' for the loaded model
    motion,                 \* the motion prop: Absent (null) or a motion name
    motionReqs,             \* history: every named motion request and what became of it
    smoothing,              \* the smoothing prop, in hundredths
    currentParams,          \* currentParamsRef.current
    updates,                \* messages handled so far (bounded in the viewer's specification)
    refTicks,               \* history: ticks of 16.67 ms since the targets last changed, -1 once another tick came
    fromZero,               \* history: that change moved the mouth target to 1.0 with current at 0.0
    rejected,               \* parameter names for which the loaded model's set function raises
    rendered,               \* the renderer: name -> value written to coreModel last
    loopDied,               \* history: an exception escaped animationLoop before it scheduled the next frame
    genClock,               \* Frame Generator: the producer clock, in ms
    genBase,                \* the clock reading the current generate call started at
    genRate,                \* the output rate of the current generate call, in Hz
    genCount,               \* the number of frames of the current generate call
    genIndex,               \* the index of the next frame of the call; genCount once it is exhausted
    genLast,                \* history: timestamp_ms of the frame emitted last, -1 before any
    genPrev,                \* history: timestamp_ms of the frame emitted before that one, -1 if none
    now,                    \* the time, in units of half a reconnect interval
    due,                    \* for every timer set so far, the time its callback may run from
    droppedAt,              \* history: when the open connection dropped and no attempt followed yet, else -1
    subtitleFont,           \* store: subtitle.font
    subtitlePosition,       \* store: subtitle.position
    subtitleBackground,     \* store: subtitle.background
    physics,                \* store: physics
    lastCall,               \* history: the setter of nested configuration called last, and its argument
    accepted,               \* history: sendAction calls made while the socket in wsRef was OPEN
    dropped,                \* history: sendAction calls made while it was not
    exposedAttempts,        \* the reconnectAttempts of the hook's last render, as the context holds it
    session,                \* RecordingPanel: session?.status, "null" without a session
    polling,                \* RecordingPanel: pollRef.current holds a running interval
    inflight,               \* status requests sent and not yet answered: the status each answer carries
    cancelling,             \* cancelRecording awaits its POST
    backendStatus,          \* the status of the recording at the backend, "none" before the start
    subtitlePhase,          \* SubtitleDisplay: "init" | "mounted" | "unmounted"
    subtitleSocks,          \* the readyState of every WebSocket SubtitleDisplay created, in order
    subtitleWsRef,          \* SubtitleDisplay's wsRef.current: an index into subtitleSocks, 0 for null
    subtitleTimers,         \* SubtitleDisplay's pending setTimeout(connect, 3000) timers
    subtitleTimerSeq,       \* the timers SubtitleDisplay has set so far
    subtitleTimeoutRef,     \* SubtitleDisplay's reconnectTimeoutRef.current, 0 for null
    subtitleConnected,      \* SubtitleDisplay's connected state
    subtitleShown,          \* SubtitleDisplay's subtitle state: "null" or the text shown
    subtitleVisible,        \* SubtitleDisplay's visible state
    subtitleFades,          \* pending setTimeout(() => setSubtitle(null), 200) timers
    camera                  \* store: camera, the zoom in tenths

sessionVars == <<phase, socks, wsRef, timers, timerSeq, reconnectTimeoutRef,
                 reconnectAttemptsRef, connected, manualSock>>

storeVars == <<live2dParams, expression, subtitleText, backgroundSource>>

msgVars == <<lastMsg, repeated, handlerRaised, lastSeen, lastTs, outOfOrder, motionAsked>>

vars == <<phase, socks, wsRef, timers, timerSeq, reconnectTimeoutRef,
          reconnectAttemptsRef, connected, manualSock,
          live2dParams, expression, subtitleText, backgroundSource,
          targetParams, lastMsg, repeated, handlerRaised, lastSeen, lastTs, outOfOrder,
          motionAsked,
          modelLoad, motionApi, motion, motionReqs,
          smoothing, currentParams, updates, refTicks, fromZero,
          rejected, rendered, loopDied,
          genClock, genBase, genRate, genCount, genIndex, genLast, genPrev,
          now, due, droppedAt,
          subtitleFont, subtitlePosition, subtitleBackground, physics, lastCall,
          accepted, dropped, exposedAttempts,
          session, polling, inflight, cancelling, backendStatus,
          subtitlePhase, subtitleSocks, subtitleWsRef, subtitleTimers, subtitleTimerSeq,
          subtitleTimeoutRef, subtitleConnected, subtitleShown, subtitleVisible,
          subtitleFades, camera>>

clockVars == <<now, due, droppedAt>>

configVars == <<subtitleFont, subtitlePosition, subtitleBackground, physics, lastCall>>

\* the state only one of the specifications below moves
sendVars == <<accepted, dropped>>

renderVars == <<exposedAttempts>>

recordingVars == <<session, polling, inflight, cancelling, backendStatus>>

subtitleVars == <<subtitlePhase, subtitleSocks, subtitleWsRef, subtitleTimers,
                  subtitleTimerSeq, subtitleTimeoutRef, subtitleConnected,
                  subtitleShown, subtitleVisible, subtitleFades>>

cameraVars == <<camera>>

\* the state of the components beside the hook and the viewer, and the camera they set
panelVars == <<recordingVars, subtitleVars, cameraVars>>

extraVars == <<clockVars, configVars, sendVars, renderVars, panelVars>>

genVars == <<genClock, genBase, genRate, genCount, genIndex, genLast, genPrev>>

motionVars == <<modelLoad, motionApi, motion, motionReqs, rejected>>

interpVars == <<smoothing, currentParams, updates, refTicks, fromZero, rendered, loopDied>>

(***************************************************************************)
(* WebSocket objects                                                       *)
(***************************************************************************)
Live == {"CONNECTING", "OPEN"}

\* the action kinds of FrontendAction the model sends (representatives of the union)
FrontendAction == {"set_expression"}

\* new WebSocket(url): CONNECTING, nothing sent, never opened
NewSocket == [readyState |-> "CONNECTING", opened |-> FALSE, sent |-> <<>>]

\* ws.close(): a CONNECTING or OPEN socket starts the closing handshake,
\* a CLOSING or CLOSED one is left as it is
CloseSocket(ss, s) ==
    IF ss[s].readyState \in Live THEN [ss EXCEPT ![s].readyState = "CLOSING"] ELSE ss

LiveSockets == {s \in 1..Len(socks) : socks[s].readyState \in Live}

(***************************************************************************)
(* useBackendSync.connect                                                  *)
(***************************************************************************)
\* connect() returns early only when wsRef.current is OPEN
ConnectCreates(ss, ref) == ~(ref # 0 /\ ss[ref].readyState = "OPEN")

ConnectSocks(ss, ref) == IF ConnectCreates(ss, ref) THEN Append(ss, NewSocket) ELSE ss

ConnectRef(ss, ref) == IF ConnectCreates(ss, ref) THEN Len(ss) + 1 ELSE ref

\* the model's bound on sockets: a connect() that would create one more is not taken
ConnectAllowed(ss, ref) == ConnectCreates(ss, ref) => Len(ss) < MaxSockets

\* clearTimeout(reconnectTimeoutRef.current) when the ref is truthy
ClearTimeout(ts, ref) == IF ref # 0 THEN ts \ {ref} ELSE ts

\* a slip in the comparison: one retry too many
CanRetry_Inclusive(attempts) == AutoReconnect /\ attempts <= MaxReconnectAttempts

\* ws.onclose: retry while the counter is below the maximum
\* a retry condition without the bound
CanRetry_Unbounded(attempts) == AutoReconnect

CanRetry(attempts) == AutoReconnect /\ attempts < MaxReconnectAttempts


(***************************************************************************)
(* useLobbyStore and the inbound messages                                  *)
(***************************************************************************)
\* parameter values are fixed-point numbers in units of 0.0001
Half == 500 * 10
One == 2 * Half

\* parameter names: two of the store's defaults and one the store does not seed
ParamNames == {"ParamMouthOpenY", "ParamEyeLOpen", "ParamAngleX"}

\* the values messages carry
ParamValues == {Half, One}

\* a field that is missing from a JSON object (undefined)
Absent == "<undefined>"

\* an object with no keys; spreading undefined gives the same
NoParams == [n \in {} |-> 0]

\* every map over the two seeded names, and two that add a name the store lacks
ParamMaps ==
    UNION {[D -> ParamValues] : D \in SUBSET {"ParamMouthOpenY", "ParamEyeLOpen"}}
    \cup {[n \in {"ParamMouthOpenY", "ParamAngleX"} |-> Half],
          [n \in {"ParamAngleX"} |-> One]}

\* the store's initial live2dParams (the names of the model among the defaults)
DefaultParams == [n \in {"ParamMouthOpenY", "ParamEyeLOpen"} |->
                     IF n = "ParamEyeLOpen" THEN One ELSE 0]

\* EXPRESSIONS
Expressions == {"neutral", "happy", "sad", "excited", "surprised", "angry", "thinking"}

\* event.data, by what JSON.parse makes of it: a syntax error, the value null, a
\* number, or an object with the fields the handler reads
BaseMsg == [parse |-> "object", type |-> Absent, data |-> NoParams,
            parameters |-> NoParams, expression |-> Absent,
            subtitleText |-> Absent, background |-> Absent,
            timestamp_ms |-> 0, motion |-> Absent]

KnownTypes == {"parameters", "frame", "emotion", "motion", "speaking", "status", "error"}

\* a few maps, for the messages that carry other fields too
SomeParams == {NoParams, [n \in {"ParamMouthOpenY"} |-> One],
               [n \in {"ParamMouthOpenY", "ParamAngleX"} |-> Half]}

Messages ==
    {[BaseMsg EXCEPT !.parse = c] : c \in {"syntax_error", "null", "number"}}
    \cup {[BaseMsg EXCEPT !.type = "parameters", !.data = p] : p \in ParamMaps}
    \cup {[BaseMsg EXCEPT !.type = "frame", !.parameters = p] : p \in ParamMaps}
    \cup {[BaseMsg EXCEPT !.type = "frame", !.parameters = p, !.expression = e] :
             p \in SomeParams, e \in {"", "happy", "smug"}}
    \cup {[BaseMsg EXCEPT !.type = "emotion", !.expression = e] : e \in {Absent, "happy"}}
    \cup {[BaseMsg EXCEPT !.type = "status", !.subtitleText = s, !.background = b] :
             s \in {Absent, "", "hello"}, b \in {Absent, "#ffffff"}}
    \cup {[BaseMsg EXCEPT !.type = ty] : ty \in {"motion", "speaking", "error"}}
    \cup {[BaseMsg EXCEPT !.type = ty, !.data = p, !.parameters = p,
                          !.expression = "happy", !.subtitleText = "hello",
                          !.background = "#ffffff"] :
             ty \in {Absent, "heartbeat"}, p \in SomeParams \ {NoParams}}

\* frames with timestamps, in any order of arrival
Timestamps == {1, 2}

OrderMessages ==
    {[BaseMsg EXCEPT !.type = "frame", !.parameters = p, !.timestamp_ms = ts] :
        p \in {[n \in {"ParamMouthOpenY"} |-> Half], [n \in {"ParamMouthOpenY"} |-> One],
               [n \in {"ParamEyeLOpen"} |-> Half],
               [n \in {"ParamMouthOpenY", "ParamAngleX"} |-> Half]},
        ts \in Timestamps}

\* the stream asking for motions: motion messages, and frames with a motion field
StreamMessages ==
    {[BaseMsg EXCEPT !.type = "motion", !.motion = m] : m \in {"tap_body", "no_such_motion"}}
    \cup {[BaseMsg EXCEPT !.type = "frame", !.parameters = p, !.motion = "tap_body"] :
             p \in {[n \in {"ParamMouthOpenY"} |-> Half], [n \in {"ParamMouthOpenY"} |-> One]}}

\* JSON.parse(event.data) followed by the read of message.type: both are inside the
\* try block, a SyntaxError or the TypeError of null.type ends in the catch clause
ParseThrows(raw) == raw.parse \in {"syntax_error", "null"}

\* the type the switch sees: a number has no type field
MessageType(raw) == IF raw.parse = "object" THEN raw.type ELSE Absent

\* the class of a message event: what the claims distinguish
MessageKind(raw) ==
    IF raw.parse \in {"syntax_error", "null"} THEN "malformed"
    ELSE IF MessageType(raw) \notin KnownTypes THEN "unknown"
    ELSE IF MessageType(raw) \in {"parameters", "frame"} THEN MessageType(raw)
    ELSE "other"

\* the messages the history remembers in full: the frames that carry an expression
IsTracked(raw) == raw.parse = "object" /\ raw.type = "frame" /\ raw.expression = "happy"

\* before any message
NoMessage == [BaseMsg EXCEPT !.parse = "none"]

\* what the history keeps of a message event: all of a tracked one, the class of another
Digest(raw) ==
    IF IsTracked(raw) THEN raw
    ELSE [BaseMsg EXCEPT !.parse = "untracked", !.type = MessageKind(raw)]

\* the class of the message event handled last
LastKind == IF IsTracked(lastMsg) THEN "frame" ELSE lastMsg.type

\* the try block covers the whole handler: nothing escapes the catch clause
HandlerRaises(raw) == FALSE

\* JavaScript truthiness of an optional string
Truthy(str) == str # Absent /\ str # ""

\* a store that replaces the whole map
SetLive2DParams_Replace(cur, params) == params

\* a store that adds the incoming values to the held ones
SetLive2DParams_Additive(cur, params) ==
    [n \in DOMAIN cur \cup DOMAIN params |->
        IF n \in DOMAIN params
            THEN (IF n \in DOMAIN cur THEN cur[n] ELSE 0) + params[n]
            ELSE cur[n]]

\* a store that starts again from the defaults on every update
SetLive2DParams_Fresh(cur, params) ==
    [n \in DOMAIN DefaultParams \cup DOMAIN params |->
        IF n \in DOMAIN params THEN params[n] ELSE DefaultParams[n]]

\* setLive2DParams: { ...state.live2dParams, ...params }
SetLive2DParams(cur, params) ==
    [n \in DOMAIN cur \cup DOMAIN params |->
        IF n \in DOMAIN params THEN params[n] ELSE cur[n]]

\* a switch whose default case applies the payload of a type it does not know
HandleMessage_ApplyUnknown(st, raw) ==
    IF ParseThrows(raw) THEN st
    ELSE [st EXCEPT !.live2dParams = SetLive2DParams(@, raw.data)]

\* a handler that drops a frame older than the frame before it
HandleMessage_NewestWins(st, raw) ==
    IF ParseThrows(raw) THEN st
    ELSE IF MessageType(raw) = "frame" /\ raw.timestamp_ms < lastTs THEN st
    ELSE IF MessageType(raw) = "frame"
        THEN [st EXCEPT !.live2dParams = SetLive2DParams(@, raw.parameters)]
    ELSE IF MessageType(raw) = "parameters"
        THEN [st EXCEPT !.live2dParams = SetLive2DParams(@, raw.data)]
    ELSE st

\* handleMessage: the store after the message event `raw`, from the store `st`
HandleMessage(st, raw) ==
    IF ParseThrows(raw) THEN st
    ELSE CASE MessageType(raw) = "parameters" ->
                [st EXCEPT !.live2dParams = SetLive2DParams(@, raw.data)]
           [] MessageType(raw) = "frame" ->
                [st EXCEPT !.live2dParams = SetLive2DParams(@, raw.parameters),
                           !.expression = IF Truthy(raw.expression)
                                              THEN raw.expression ELSE @]
           [] MessageType(raw) = "emotion" ->
                [st EXCEPT !.expression = raw.expression]
           [] MessageType(raw) = "status" ->
                [st EXCEPT !.subtitleText = IF Truthy(raw.subtitleText)
                                                THEN raw.subtitleText ELSE @,
                           !.backgroundSource = IF Truthy(raw.background)
                                                    THEN raw.background ELSE @]
           [] OTHER -> st

\* the slices of the store the hook holds setters for
Store == [live2dParams |-> live2dParams, expression |-> expression,
          subtitleText |-> subtitleText, backgroundSource |-> backgroundSource,
          connected |-> connected]

(***************************************************************************)
(* Live2DViewer: interpolation                                             *)
(***************************************************************************)
\* Math.abs(diff) > 0.001, in units of 0.0001
Epsilon == 10
\* the reference frame of 16.67 ms, in units of 0.01 ms
RefFrame == 1667
\* ticks of 16.67 ms the history counts after a change of the targets
MaxRefTicks == 3
\* messages the viewer's specification handles
MaxUpdates == 1

\* values of the smoothing prop: 0.25 (what App passes) and 1.0 (immediate)
Smoothings == {25, 100}

\* elapsed times between two ticks, in units of 0.01 ms: none, 120 Hz, 60 Hz, 30 Hz
Deltas == {0, 833, RefFrame, 2 * RefFrame}

Abs(x) == IF x < 0 THEN -x ELSE x

\* fixed-point product, rounded toward zero
MulDiv(x, num, den) == IF x >= 0 THEN (x * num) \div den ELSE -(((-x) * num) \div den)

\* an interpolation factor against a reference of 33.34 ms
Advance_HalfRate(diff, s, d) ==
    IF s * d >= 100 * 2 * RefFrame THEN diff ELSE MulDiv(diff, s * d, 100 * 2 * RefFrame)

\* an interpolation factor that is not capped at 1
Advance_Unclamped(diff, s, d) == MulDiv(diff, s * d, 100 * RefFrame)

\* diff * t with t = Math.min(1, smoothing * (delta / 16.67))
Advance(diff, s, d) ==
    IF s * d >= 100 * RefFrame THEN diff ELSE MulDiv(diff, s * d, 100 * RefFrame)

\* a step that never snaps to the target
Interpolate_NoSnap(cur, tgt, s, d) == cur + Advance(tgt - cur, s, d)

\* a step that stops inside the threshold without taking the target's value
Interpolate_Deadband(cur, tgt, s, d) ==
    IF Abs(tgt - cur) > Epsilon THEN cur + Advance(tgt - cur, s, d) ELSE cur

\* one parameter's new current value
Interpolate(cur, tgt, s, d) ==
    IF Abs(tgt - cur) > Epsilon THEN cur + Advance(tgt - cur, s, d) ELSE tgt

\* the loop over Object.keys(target): current[key] ?? targetValue, then the step
InterpolateAll(cur, tgt, s, d) ==
    [n \in DOMAIN cur \cup DOMAIN tgt |->
        IF n \in DOMAIN tgt
            THEN Interpolate(IF n \in DOMAIN cur THEN cur[n] ELSE tgt[n], tgt[n], s, d)
            ELSE cur[n]]

\* what a loaded model may reject: nothing, or a name the consumer holds
RejectSets == {{}, {"ParamEyeLOpen"}}

\* an applyParams without the try/catch around each parameter: the first rejected
\* name aborts the frame and the exception leaves the loop
ApplyParams_AbortFrame(rend, cur, rej) ==
    IF DOMAIN cur \cap rej # {} THEN [rendered |-> rend, raised |-> TRUE]
    ELSE [rendered |-> [n \in DOMAIN rend \cup DOMAIN cur |->
                          IF n \in DOMAIN cur THEN cur[n] ELSE rend[n]],
          raised |-> FALSE]

\* applyParams: every entry is set inside its own try/catch, a rejected name is skipped
ApplyParams(rend, cur, rej) ==
    [rendered |-> [n \in DOMAIN rend \cup (DOMAIN cur \ rej) |->
                      IF n \in DOMAIN cur \ rej THEN cur[n] ELSE rend[n]],
     raised |-> FALSE]

\* the messages of the viewer's specification: single-parameter updates of the mouth
ViewMessages ==
    {[BaseMsg EXCEPT !.type = "parameters", !.data = [n \in {"ParamMouthOpenY"} |-> v]] :
        v \in {0, Half, One}}

\* motion groups: one the model has, one it lacks
MotionNames == {"tap_body", "no_such_motion"}
\* named motion requests of the model
MaxMotions == 3

(***************************************************************************)
(* The Frame Generator (the producer of the frames)                        *)
(***************************************************************************)
\* frames of one generate call in the model
MaxFrames == 3
\* the producer clock reading after which the model starts no further call
MaxGenClock == 40

\* output rates in Hz: the default and a faster one
OutputRates == {30, 60}

\* idle time between two generate calls, in ms
IdleTimes == {1, 20}

\* a timestamp in whole seconds
FrameTimestamp_WholeSeconds(base, k, rate) == base + (k \div rate) * 1000

\* timestamp_ms (uint64) of frame k of a call that started at clock reading base
\* and emits at a fixed rate
FrameTimestamp(base, k, rate) == base + (k * 1000) \div rate

(***************************************************************************)
(* useLobbyStore: nested configuration                                     *)
(***************************************************************************)
\* subtitle.font, subtitle.position, subtitle.background and physics as constructed
DefaultFont == [family |-> "Noto Sans JP", size |-> 32, color |-> "#ffffff", weight |-> 400]

DefaultPosition == [vertical |-> "bottom", horizontal |-> "center", marginX |-> 0, marginY |-> 40]

DefaultSubtitleBackground == [color |-> "#000000", opacity |-> 70, padding |-> 12]

DefaultPhysics == [enabled |-> TRUE, gravity |-> <<0, -1>>, wind |-> <<0, 0>>]

\* the values the settings panels give each field (opacity in hundredths)
FontValues ==
    [family |-> {"Noto Sans JP", "Kosugi Maru"}, size |-> {32, 48}, color |-> {"#ffffff"},
     weight |-> {400}]

PositionValues ==
    [vertical |-> {"bottom", "top"}, horizontal |-> {"center"}, marginX |-> {0},
     marginY |-> {40, 0}]

SubtitleBackgroundValues == [color |-> {"#000000"}, opacity |-> {70, 100}, padding |-> {12}]

PhysicsValues == [enabled |-> {TRUE, FALSE}, gravity |-> {<<0, -1>>, <<1, 0>>}, wind |-> {<<0, 0>>}]

\* the object p with field f set to v
WithField(p, f, v) == [g \in DOMAIN p \cup {f} |-> IF g = f THEN v ELSE p[g]]

\* the objects that name some of the given fields, each with one of its values
RECURSIVE PartialOver(_, _)
PartialOver(values, fields) ==
    IF fields = {} THEN {[g \in {} |-> 0]}
    ELSE LET f == CHOOSE x \in fields : TRUE
             rest == PartialOver(values, fields \ {f})
         IN  rest \cup {WithField(p, f, v) : p \in rest, v \in values[f]}

\* Partial<T>
Partial(values) == PartialOver(values, DOMAIN values)

\* no setter of nested configuration was called since the last other change
NoCall == [name |-> "none", patch |-> [g \in {} |-> 0]]

\* a setter that stores the partial object in place of the nested one
Spread_Replace(base, patch) == patch

\* { ...base, ...patch }
Spread(base, patch) ==
    [f \in DOMAIN base \cup DOMAIN patch |-> IF f \in DOMAIN patch THEN patch[f] ELSE base[f]]

\* useLobbyStore.setSubtitleFont
SetSubtitleFont(font) ==
    /\ subtitleFont' = Spread(subtitleFont, font)
    /\ UNCHANGED <<subtitlePosition, subtitleBackground, physics>>

\* useLobbyStore.setSubtitlePosition
SetSubtitlePosition(position) ==
    /\ subtitlePosition' = Spread(subtitlePosition, position)
    /\ UNCHANGED <<subtitleFont, subtitleBackground, physics>>

\* useLobbyStore.setSubtitleBackground
SetSubtitleBackground(bg) ==
    /\ subtitleBackground' = Spread(subtitleBackground, bg)
    /\ UNCHANGED <<subtitleFont, subtitlePosition, physics>>

\* useLobbyStore.setPhysics
SetPhysics(config) ==
    /\ physics' = Spread(physics, config)
    /\ UNCHANGED <<subtitleFont, subtitlePosition, subtitleBackground>>

Init ==
    /\ phase = "init"
    /\ socks = <<>>
    /\ wsRef = 0
    /\ timers = {}
    /\ timerSeq = 0
    /\ reconnectTimeoutRef = 0
    /\ reconnectAttemptsRef = 0
    /\ connected = FALSE
    /\ manualSock = 0
    /\ live2dParams = DefaultParams
    /\ expression = "neutral"
    /\ subtitleText = ""
    /\ backgroundSource = "#1a1a2e"
    /\ targetParams = NoParams
    /\ lastMsg = NoMessage
    /\ repeated = FALSE
    /\ handlerRaised = FALSE
    /\ lastSeen = DefaultParams
    /\ lastTs = 0
    /\ outOfOrder = FALSE
    /\ motionAsked = {}
    /\ modelLoad = "loading"
    /\ motionApi = FALSE
    /\ motion = Absent
    /\ motionReqs = <<>>
    /\ smoothing = 25
    /\ currentParams = NoParams
    /\ updates = 0
    /\ refTicks = -1
    /\ fromZero = FALSE
    /\ rejected = {}
    /\ rendered = NoParams
    /\ loopDied = FALSE
    /\ genClock = 0
    /\ genBase = 0
    /\ genRate = 30
    /\ genCount = 0
    /\ genIndex = 0
    /\ genLast = -1
    /\ genPrev = -1
    /\ now = 0
    /\ due = <<>>
    /\ droppedAt = -1
    /\ subtitleFont = DefaultFont
    /\ subtitlePosition = DefaultPosition
    /\ subtitleBackground = DefaultSubtitleBackground
    /\ physics = DefaultPhysics
    /\ lastCall = NoCall
    /\ accepted = 0
    /\ dropped = 0
    /\ exposedAttempts = 0
    /\ session = "null"
    /\ polling = FALSE
    /\ inflight = <<>>
    /\ cancelling = FALSE
    /\ backendStatus = "none"
    /\ subtitlePhase = "init"
    /\ subtitleSocks = <<>>
    /\ subtitleWsRef = 0
    /\ subtitleTimers = {}
    /\ subtitleTimerSeq = 0
    /\ subtitleTimeoutRef = 0
    /\ subtitleConnected = FALSE
    /\ subtitleShown = "null"
    /\ subtitleVisible = FALSE
    /\ subtitleFades = 0
    /\ camera = [preset |-> "full", zoom |-> 10, offsetX |-> 0, offsetY |-> 0,
                 transition |-> "smooth", transitionDuration |-> 500]

\* useEffect(() => { connect(); ... }, [connect]) on mount
Mount ==
    /\ phase = "init"
    /\ phase' = "mounted"
    /\ socks' = ConnectSocks(socks, wsRef)
    /\ wsRef' = ConnectRef(socks, wsRef)
    /\ UNCHANGED <<timers, timerSeq, reconnectTimeoutRef, reconnectAttemptsRef,
                   connected, manualSock>>

\* an onopen that forgets the snapshot request
WsOnOpen_NoSnapshot(s) ==
    /\ socks[s].readyState = "CONNECTING"
    /\ socks' = [socks EXCEPT ![s].readyState = "OPEN", ![s].opened = TRUE]
    /\ connected' = TRUE
    /\ reconnectAttemptsRef' = 0
    /\ UNCHANGED <<phase, wsRef, timers, timerSeq, reconnectTimeoutRef, manualSock>>

\* an onopen that leaves the attempt counter alone
WsOnOpen_NoReset(s) ==
    /\ socks[s].readyState = "CONNECTING"
    /\ socks' = [socks EXCEPT ![s].readyState = "OPEN", ![s].opened = TRUE,
                              ![s].sent = Append(@, "get_status")]
    /\ connected' = TRUE
    /\ UNCHANGED <<phase, wsRef, timers, timerSeq, reconnectTimeoutRef,
                   reconnectAttemptsRef, manualSock>>

\* the open event of socket s: ws.onopen
WsOnOpen(s) ==
    /\ socks[s].readyState = "CONNECTING"
    /\ socks' = [socks EXCEPT ![s].readyState = "OPEN", ![s].opened = TRUE,
                              ![s].sent = Append(@, "get_status")]
    /\ connected' = TRUE
    /\ reconnectAttemptsRef' = 0
    /\ UNCHANGED <<phase, wsRef, timers, timerSeq, reconnectTimeoutRef, manualSock>>

\* the close event of socket s (a failed handshake, a dropped connection, or the end
\* of the closing handshake close() started): ws.onclose
WsOnClose(s) ==
    /\ socks[s].readyState # "CLOSED"
    /\ socks' = [socks EXCEPT ![s].readyState = "CLOSED"]
    /\ connected' = FALSE
    /\ wsRef' = 0
    /\ IF CanRetry(reconnectAttemptsRef)
          THEN /\ reconnectAttemptsRef' = reconnectAttemptsRef + 1
               /\ timerSeq' = timerSeq + 1
               /\ timers' = timers \cup {timerSeq + 1}
               /\ reconnectTimeoutRef' = timerSeq + 1
          ELSE UNCHANGED <<reconnectAttemptsRef, timerSeq, timers, reconnectTimeoutRef>>
    /\ UNCHANGED <<phase, manualSock>>

\* a pending retry timer fires: connect()
TimerFire(t) ==
    /\ t \in timers
    /\ ConnectAllowed(socks, wsRef)
    /\ timers' = timers \ {t}
    /\ socks' = ConnectSocks(socks, wsRef)
    /\ wsRef' = ConnectRef(socks, wsRef)
    /\ UNCHANGED <<phase, timerSeq, reconnectTimeoutRef, reconnectAttemptsRef,
                   connected, manualSock>>

\* a reconnect() that keeps the attempt counter
Reconnect_KeepCounter ==
    /\ phase = "mounted"
    /\ LET closed == IF wsRef # 0 THEN CloseSocket(socks, wsRef) ELSE socks
       IN  /\ ConnectAllowed(closed, wsRef)
           /\ socks' = ConnectSocks(closed, wsRef)
           /\ wsRef' = ConnectRef(closed, wsRef)
           /\ manualSock' = IF ConnectCreates(closed, wsRef) THEN Len(closed) + 1
                                                              ELSE manualSock
    /\ timers' = ClearTimeout(timers, reconnectTimeoutRef)
    /\ UNCHANGED <<phase, timerSeq, reconnectTimeoutRef, reconnectAttemptsRef, connected>>

\* useBackendSync.reconnect
Reconnect ==
    /\ phase = "mounted"
    /\ LET closed == IF wsRef # 0 THEN CloseSocket(socks, wsRef) ELSE socks
       IN  /\ ConnectAllowed(closed, wsRef)
           /\ socks' = ConnectSocks(closed, wsRef)
           /\ wsRef' = ConnectRef(closed, wsRef)
           /\ manualSock' = IF ConnectCreates(closed, wsRef) THEN Len(closed) + 1
                                                              ELSE manualSock
    /\ timers' = ClearTimeout(timers, reconnectTimeoutRef)
    /\ reconnectAttemptsRef' = 0
    /\ UNCHANGED <<phase, timerSeq, reconnectTimeoutRef, connected>>

\* the effect's cleanup on unmount
Teardown ==
    /\ phase = "mounted"
    /\ phase' = "unmounted"
    /\ timers' = ClearTimeout(timers, reconnectTimeoutRef)
    /\ socks' = IF wsRef # 0 THEN CloseSocket(socks, wsRef) ELSE socks
    /\ UNCHANGED <<wsRef, timerSeq, reconnectTimeoutRef, reconnectAttemptsRef,
                   connected, manualSock>>

\* a sendAction that writes to the socket in wsRef whatever its state, so that the
\* action goes out once the socket is open
SendAction_Queue(a) ==
    /\ phase = "mounted"
    /\ IF wsRef # 0
          THEN /\ Len(socks[wsRef].sent) < MaxSent
               /\ socks' = [socks EXCEPT ![wsRef].sent = Append(@, a)]
          ELSE UNCHANGED socks
    /\ UNCHANGED <<phase, wsRef, timers, timerSeq, reconnectTimeoutRef,
                   reconnectAttemptsRef, connected, manualSock>>

\* useBackendSync.sendAction
SendAction(a) ==
    /\ phase = "mounted"
    /\ IF wsRef # 0 /\ socks[wsRef].readyState = "OPEN"
          THEN /\ Len(socks[wsRef].sent) < MaxSent
               /\ socks' = [socks EXCEPT ![wsRef].sent = Append(@, a)]
          ELSE UNCHANGED socks
    /\ UNCHANGED <<phase, wsRef, timers, timerSeq, reconnectTimeoutRef,
                   reconnectAttemptsRef, connected, manualSock>>

\* ws.onmessage = handleMessage: a message event on socket s
WsOnMessage(s, raw) ==
    /\ socks[s].readyState = "OPEN"
    /\ LET st == HandleMessage(Store, raw)
       IN  /\ live2dParams' = st.live2dParams
           /\ expression' = st.expression
           /\ subtitleText' = st.subtitleText
           /\ backgroundSource' = st.backgroundSource
           /\ connected' = st.connected
    /\ lastMsg' = Digest(raw)
    /\ repeated' = (IsTracked(raw) /\ lastMsg = raw)
    /\ handlerRaised' = (handlerRaised \/ HandlerRaises(raw))
    /\ LET mentioned == IF MessageKind(raw) = "parameters" THEN DOMAIN raw.data
                        ELSE IF MessageKind(raw) = "frame" THEN DOMAIN raw.parameters
                        ELSE {}
       IN  lastSeen' = [n \in DOMAIN lastSeen \cup mentioned |->
                           IF n \notin mentioned THEN lastSeen[n]
                           ELSE IF MessageKind(raw) = "parameters" THEN raw.data[n]
                           ELSE raw.parameters[n]]
    /\ lastTs' = IF MessageKind(raw) = "frame" THEN raw.timestamp_ms ELSE lastTs
    /\ motionAsked' = motionAsked \cup
                          (IF /\ ~ParseThrows(raw)
                              /\ MessageType(raw) \in {"motion", "frame"}
                              /\ raw.motion # Absent
                           THEN {raw.motion} ELSE {})
    /\ outOfOrder' = (outOfOrder \/ (MessageKind(raw) = "frame" /\ raw.timestamp_ms < lastTs))
    /\ UNCHANGED <<targetParams, phase, socks, wsRef, timers, timerSeq,
                   reconnectTimeoutRef, reconnectAttemptsRef, manualSock>>

\* Live2DViewer: useEffect(() => { targetParamsRef.current = { ...params } }, [params])
\* a target effect that also moves the current values to the new targets
TargetEffect_Snap ==
    /\ targetParams # live2dParams
    /\ targetParams' = live2dParams
    /\ currentParams' = live2dParams
    /\ refTicks' = 0
    /\ fromZero' = /\ "ParamMouthOpenY" \in DOMAIN currentParams
                   /\ currentParams["ParamMouthOpenY"] = 0
                   /\ live2dParams["ParamMouthOpenY"] = One
    /\ UNCHANGED <<storeVars, connected, msgVars, smoothing, updates,
                   rendered, loopDied>>

TargetEffect ==
    /\ targetParams # live2dParams
    /\ targetParams' = live2dParams
    /\ refTicks' = 0
    /\ fromZero' = /\ "ParamMouthOpenY" \in DOMAIN currentParams
                   /\ currentParams["ParamMouthOpenY"] = 0
                   /\ live2dParams["ParamMouthOpenY"] = One
    /\ UNCHANGED <<storeVars, connected, msgVars, smoothing, currentParams, updates,
                   rendered, loopDied>>

\* initApp: the model loaded, modelRef.current is set and the animation loop
\* starts; api tells whether the loaded model has a motion function
ModelLoaded(api) ==
    /\ modelLoad = "loading"
    /\ modelLoad' = "ready"
    /\ motionApi' = api
    /\ rejected' \in RejectSets
    /\ UNCHANGED <<motion, motionReqs>>

\* the smoothing prop changes; animationLoop is rebuilt with the new value
SetSmoothing(s) ==
    /\ s # smoothing
    /\ smoothing' = s
    /\ refTicks' = -1
    /\ UNCHANGED <<currentParams, updates, fromZero, targetParams, rendered, loopDied>>

\* initApp: loading the model threw, modelRef.current stays null
ModelLoadFailed ==
    /\ modelLoad = "loading"
    /\ modelLoad' = "failed"
    /\ UNCHANGED <<motionApi, motion, motionReqs, rejected>>

\* the motion effect found no model (line 379) or no motion API (line 399):
\* it returns without calling onMotionComplete and without scheduling a call
MotionOutcome(load, api) == IF load = "ready" /\ api THEN "playing" ELSE "dropped"

\* the motion prop changes to a name and the effect of [motion, ...] runs
MotionEffect(name) ==
    /\ Len(motionReqs) < MaxMotions
    /\ name # motion
    /\ motion' = name
    /\ motionReqs' = Append(motionReqs,
                            [name |-> name, state |-> MotionOutcome(modelLoad, motionApi)])
    /\ UNCHANGED <<modelLoad, motionApi, rejected>>

\* the motion prop goes back to null: the effect runs and returns at line 379
MotionCleared ==
    /\ motion # Absent
    /\ motion' = Absent
    /\ UNCHANGED <<modelLoad, motionApi, motionReqs, rejected>>

\* playMotion: await model.motion(motion, 0) settles, resolved (line 398) or
\* rejected (line 407); both paths call onMotionComplete
PlayMotionSettled(i) ==
    /\ motionReqs[i].state = "playing"
    /\ motionReqs' = [motionReqs EXCEPT ![i].state = "completed"]
    /\ UNCHANGED <<modelLoad, motionApi, motion, rejected>>

\* animationLoop: one render tick, d the time since the last one
Tick(d) ==
    /\ modelLoad = "ready"
    /\ ~loopDied
    /\ currentParams' = InterpolateAll(currentParams, targetParams, smoothing, d)
    /\ LET cur == InterpolateAll(currentParams, targetParams, smoothing, d)
           res == IF DOMAIN cur # {} THEN ApplyParams(rendered, cur, rejected)
                                     ELSE [rendered |-> rendered, raised |-> FALSE]
       IN  /\ rendered' = res.rendered
           /\ loopDied' = res.raised
    /\ refTicks' = IF refTicks >= 0 /\ d = RefFrame
                       THEN (IF refTicks < MaxRefTicks THEN refTicks + 1 ELSE refTicks)
                       ELSE -1
    /\ UNCHANGED <<smoothing, updates, fromZero, targetParams>>

\* the session: connection lifecycle of useBackendSync
\* generate: a call starts at the present clock reading; a speech call spans the
\* audio with n frames, an emotion-only update is a call of a single frame
Generate(n, rate) ==
    /\ genIndex = genCount
    /\ genClock < MaxGenClock
    /\ genBase' = genClock
    /\ genRate' = rate
    /\ genCount' = n
    /\ genIndex' = 0
    /\ UNCHANGED <<genClock, genLast, genPrev>>

\* the lazy sequence yields its next frame; the output rate is fixed, so the next
\* frame, of this call or of a later one, is not due before one output interval
EmitFrame ==
    /\ genIndex < genCount
    /\ genPrev' = genLast
    /\ genLast' = FrameTimestamp(genBase, genIndex, genRate)
    /\ genIndex' = genIndex + 1
    /\ genClock' = FrameTimestamp(genBase, genIndex + 1, genRate)
    /\ UNCHANGED <<genBase, genRate, genCount>>

\* the producer is idle for dt ms between two calls
ProducerIdle(dt) ==
    /\ genIndex = genCount
    /\ genClock < MaxGenClock
    /\ genClock' = genClock + dt
    /\ UNCHANGED <<genBase, genRate, genCount, genIndex, genLast, genPrev>>

generatorRest == <<sessionVars, storeVars, msgVars, targetParams, motionVars, interpVars,
                   extraVars>>

GenNext ==
    \/ (\E n \in 1..MaxFrames : \E rate \in OutputRates : Generate(n, rate))
            /\ UNCHANGED generatorRest
    \/ EmitFrame /\ UNCHANGED generatorRest
    \/ (\E dt \in IdleTimes : ProducerIdle(dt)) /\ UNCHANGED generatorRest

SpecGen == Init /\ [][GenNext]_vars

viewVars == <<storeVars, msgVars, targetParams, motionVars, interpVars, genVars>>

sessionRest == <<viewVars, extraVars>>

Next ==
    \/ Mount /\ UNCHANGED sessionRest
    \/ (\E s \in 1..Len(socks) : WsOnOpen(s)) /\ UNCHANGED sessionRest
    \/ (\E s \in 1..Len(socks) : WsOnClose(s)) /\ UNCHANGED sessionRest
    \/ (\E t \in timers : TimerFire(t)) /\ UNCHANGED sessionRest
    \/ Reconnect /\ UNCHANGED sessionRest
    \/ Teardown /\ UNCHANGED sessionRest
    \/ (\E a \in FrontendAction : SendAction(a)) /\ UNCHANGED sessionRest

Spec == Init /\ [][Next]_vars

(***************************************************************************)
(* The session against the clock of setTimeout                             *)
(***************************************************************************)
\* reconnectInterval, in units of half an interval
ReconnectInterval == 2
\* the time the clock of the timed specification runs to
MaxNow == 4

\* window.setTimeout(connect, reconnectInterval): the timers set by this step may run
\* from now + reconnectInterval on
SetTimeoutDue == [t \in 1..timerSeq' |-> IF t <= timerSeq THEN due[t] ELSE now + ReconnectInterval]

\* the close event of the open socket the hook refers to, not asked for by close(),
\* met by ws.onclose with a retry
Dropped(s) == s = wsRef /\ socks[s].readyState = "OPEN" /\ CanRetry(reconnectAttemptsRef)

\* time passes
Elapse ==
    /\ now < MaxNow
    /\ now' = now + 1
    /\ UNCHANGED <<due, droppedAt>>

retryRest == <<viewVars, configVars, sendVars, renderVars, panelVars>>

\* the session with the timers of setTimeout running no earlier than their delay
RetryNext ==
    \/ Mount /\ UNCHANGED <<retryRest, clockVars>>
    \/ (\E s \in 1..Len(socks) : WsOnOpen(s)) /\ UNCHANGED <<retryRest, clockVars>>
    \/ \E s \in 1..Len(socks) :
          /\ WsOnClose(s)
          /\ due' = SetTimeoutDue
          /\ droppedAt' = IF Dropped(s) THEN now ELSE droppedAt
          /\ UNCHANGED <<retryRest, now>>
    \/ \E t \in timers :
          /\ due[t] <= now
          /\ TimerFire(t)
          /\ droppedAt' = IF Len(socks') > Len(socks) THEN -1 ELSE droppedAt
          /\ UNCHANGED <<retryRest, now, due>>
    \/ Reconnect /\ droppedAt' = -1 /\ UNCHANGED <<retryRest, now, due>>
    \/ Teardown /\ droppedAt' = -1 /\ UNCHANGED <<retryRest, now, due>>
    \/ Elapse /\ UNCHANGED <<sessionVars, retryRest>>

SpecRetry == Init /\ [][RetryNext]_vars

(***************************************************************************)
(* The session with the calls of sendAction counted                        *)
(***************************************************************************)
\* sendAction calls the specification drops; it sends MaxSent in all
MaxDropped == 1

\* wsRef.current?.readyState === WebSocket.OPEN
RefOpen == wsRef # 0 /\ socks[wsRef].readyState = "OPEN"

sendRest == <<viewVars, clockVars, configVars, renderVars, panelVars>>

SendNext ==
    \/ Mount /\ UNCHANGED <<sendRest, sendVars>>
    \/ (\E s \in 1..Len(socks) : WsOnOpen(s)) /\ UNCHANGED <<sendRest, sendVars>>
    \/ (\E s \in 1..Len(socks) : WsOnClose(s)) /\ UNCHANGED <<sendRest, sendVars>>
    \/ (\E t \in timers : TimerFire(t)) /\ UNCHANGED <<sendRest, sendVars>>
    \/ Reconnect /\ UNCHANGED <<sendRest, sendVars>>
    \/ \E a \in FrontendAction :
          /\ SendAction(a)
          /\ IF RefOpen THEN accepted < MaxSent /\ accepted' = accepted + 1
                                                /\ dropped' = dropped
                        ELSE dropped < MaxDropped /\ dropped' = dropped + 1
                                                  /\ accepted' = accepted
          /\ UNCHANGED sendRest

SpecSend == Init /\ [][SendNext]_vars

(***************************************************************************)
(* The session against the renders of the hook                             *)
(***************************************************************************)
\* the hook subscribes to the store's connected only: a handler that changed it is
\* followed by a render, whose return value reads reconnectAttemptsRef.current;
\* after any other handler the value of the last render stays
Rerender ==
    exposedAttempts' = IF connected' # connected THEN reconnectAttemptsRef'
                                                  ELSE exposedAttempts

renderRest == <<viewVars, clockVars, configVars, sendVars, panelVars>>

RenderNext ==
    \/ Mount /\ Rerender /\ UNCHANGED renderRest
    \/ (\E s \in 1..Len(socks) : WsOnOpen(s)) /\ Rerender /\ UNCHANGED renderRest
    \/ (\E s \in 1..Len(socks) : WsOnClose(s)) /\ Rerender /\ UNCHANGED renderRest
    \/ (\E t \in timers : TimerFire(t)) /\ Rerender /\ UNCHANGED renderRest
    \/ Reconnect /\ Rerender /\ UNCHANGED renderRest
    \/ Teardown /\ Rerender /\ UNCHANGED renderRest

SpecRender == Init /\ [][RenderNext]_vars

(***************************************************************************)
(* RecordingPanel: the status of a recording                               *)
(***************************************************************************)
\* status requests in flight at once
MaxInflight == 2

\* RecordingStatus.status
TerminalStatus == {"completed", "failed", "cancelled"}

ActiveStatus == {"pending", "running"}

\* the sequence without its i-th element
Without(seq, i) == [j \in 1..(Len(seq) - 1) |-> IF j < i THEN seq[j] ELSE seq[j + 1]]

\* startRecording: the POST to /api/recording/start answered, setSession(data) and
\* a poll every second
StartRecording ==
    /\ backendStatus = "none"
    /\ backendStatus' = "pending"
    /\ session' = "pending"
    /\ polling' = TRUE
    /\ UNCHANGED <<inflight, cancelling>>

\* the backend works on the recording
BackendProgress ==
    /\ \/ backendStatus = "pending" /\ backendStatus' = "running"
       \/ backendStatus = "running" /\ backendStatus' \in {"completed", "failed"}
    /\ UNCHANGED <<session, polling, inflight, cancelling>>

\* the interval fires: fetch(/api/recording/status/...), answered by the backend
\* with the status it has now; the answer is on its way
PollRequest ==
    /\ polling
    /\ Len(inflight) < MaxInflight
    /\ inflight' = Append(inflight, backendStatus)
    /\ UNCHANGED <<session, polling, cancelling, backendStatus>>

\* a poll's answer arrives, in whatever order the requests complete: setSession(status),
\* and a terminal status clears the interval
PollResponse(i) ==
    /\ session' = inflight[i]
    /\ polling' = IF inflight[i] \in TerminalStatus THEN FALSE ELSE polling
    /\ inflight' = Without(inflight, i)
    /\ UNCHANGED <<cancelling, backendStatus>>

\* a poll fails or is answered with an error status: ignored
PollFailed(i) ==
    /\ inflight' = Without(inflight, i)
    /\ UNCHANGED <<session, polling, cancelling, backendStatus>>

\* cancelRecording up to its await: the POST to /api/recording/cancel reaches the backend
CancelRequested ==
    /\ session # "null"
    /\ ~cancelling
    /\ cancelling' = TRUE
    /\ backendStatus' = IF backendStatus \in ActiveStatus THEN "cancelled" ELSE backendStatus
    /\ UNCHANGED <<session, polling, inflight>>

\* cancelRecording after its await: the interval is cleared and the status set to cancelled
CancelSettled ==
    /\ cancelling
    /\ cancelling' = FALSE
    /\ polling' = FALSE
    /\ session' = "cancelled"
    /\ UNCHANGED <<inflight, backendStatus>>

recordingRest == <<sessionVars, viewVars, clockVars, configVars, sendVars, renderVars,
                   subtitleVars, cameraVars>>

RecordingNext ==
    \/ StartRecording /\ UNCHANGED recordingRest
    \/ BackendProgress /\ UNCHANGED recordingRest
    \/ PollRequest /\ UNCHANGED recordingRest
    \/ (\E i \in 1..Len(inflight) : PollResponse(i)) /\ UNCHANGED recordingRest
    \/ (\E i \in 1..Len(inflight) : PollFailed(i)) /\ UNCHANGED recordingRest
    \/ CancelRequested /\ UNCHANGED recordingRest
    \/ CancelSettled /\ UNCHANGED recordingRest

SpecRecording == Init /\ [][RecordingNext]_vars

(***************************************************************************)
(* SubtitleDisplay: its own WebSocket                                      *)
(***************************************************************************)
\* WebSockets SubtitleDisplay creates in the specification
MaxSubtitleSockets == 3

\* pending fade-out timers in the specification
MaxFades == 1

\* the socket, the reference and the reconnect timers of SubtitleDisplay
subtitleSocketVars == <<subtitleSocks, subtitleWsRef, subtitleTimers, subtitleTimerSeq,
                        subtitleTimeoutRef, subtitleConnected>>

\* what SubtitleDisplay renders
subtitleTextVars == <<subtitleShown, subtitleVisible, subtitleFades>>

\* the messages the subtitle endpoint sends
SubtitleMessages ==
    {[type |-> "subtitle", action |-> "show", data |-> "hello"],
     [type |-> "subtitle", action |-> "show", data |-> "null"],
     [type |-> "subtitle", action |-> "clear", data |-> "null"],
     [type |-> "ping", action |-> "show", data |-> "hello"]}

\* SubtitleDisplay.connect: a new WebSocket unless wsRef.current is OPEN
SubtitleConnectCreates ==
    ~(subtitleWsRef # 0 /\ subtitleSocks[subtitleWsRef] = "OPEN")

SubtitleConnect ==
    IF SubtitleConnectCreates
       THEN /\ Len(subtitleSocks) < MaxSubtitleSockets
            /\ subtitleSocks' = Append(subtitleSocks, "CONNECTING")
            /\ subtitleWsRef' = Len(subtitleSocks) + 1
       ELSE UNCHANGED <<subtitleSocks, subtitleWsRef>>

\* the effect of [connect] on mount: connect()
SubtitleMount ==
    /\ subtitlePhase = "init"
    /\ subtitlePhase' = "mounted"
    /\ SubtitleConnect
    /\ UNCHANGED <<subtitleTimers, subtitleTimerSeq, subtitleTimeoutRef, subtitleConnected,
                   subtitleTextVars>>

\* ws.onopen of socket s
SubtitleOnOpen(s) ==
    /\ subtitleSocks[s] = "CONNECTING"
    /\ subtitleSocks' = [subtitleSocks EXCEPT ![s] = "OPEN"]
    /\ subtitleConnected' = TRUE
    /\ UNCHANGED <<subtitlePhase, subtitleWsRef, subtitleTimers, subtitleTimerSeq,
                   subtitleTimeoutRef, subtitleTextVars>>

\* ws.onmessage of socket s: show sets the subtitle and shows it, clear hides it and
\* sets a timer that drops the subtitle
SubtitleOnMessage(s, m) ==
    /\ subtitleSocks[s] = "OPEN"
    /\ IF m.type = "subtitle" /\ m.action = "show" /\ m.data # "null"
          THEN /\ subtitleShown' = m.data
               /\ subtitleVisible' = TRUE
               /\ UNCHANGED subtitleFades
          ELSE IF m.type = "subtitle" /\ m.action = "clear"
                  THEN /\ subtitleFades < MaxFades
                       /\ subtitleVisible' = FALSE
                       /\ subtitleFades' = subtitleFades + 1
                       /\ UNCHANGED subtitleShown
                  ELSE UNCHANGED subtitleTextVars
    /\ UNCHANGED <<subtitlePhase, subtitleSocketVars>>

\* the timer of a clear fires: setSubtitle(null)
SubtitleFade ==
    /\ subtitleFades > 0
    /\ subtitleFades' = subtitleFades - 1
    /\ subtitleShown' = "null"
    /\ UNCHANGED <<subtitlePhase, subtitleSocketVars, subtitleVisible>>

\* ws.onclose of socket s: setConnected(false) and setTimeout(connect, 3000), always
SubtitleOnClose(s) ==
    /\ subtitleSocks[s] # "CLOSED"
    /\ subtitleSocks' = [subtitleSocks EXCEPT ![s] = "CLOSED"]
    /\ subtitleConnected' = FALSE
    /\ subtitleTimerSeq' = subtitleTimerSeq + 1
    /\ subtitleTimers' = subtitleTimers \cup {subtitleTimerSeq + 1}
    /\ subtitleTimeoutRef' = subtitleTimerSeq + 1
    /\ UNCHANGED <<subtitlePhase, subtitleWsRef, subtitleTextVars>>

\* a pending timer fires: connect()
SubtitleTimerFire(t) ==
    /\ t \in subtitleTimers
    /\ subtitleTimers' = subtitleTimers \ {t}
    /\ SubtitleConnect
    /\ UNCHANGED <<subtitlePhase, subtitleTimerSeq, subtitleTimeoutRef, subtitleConnected,
                   subtitleTextVars>>

\* the effect's cleanup on unmount: clearTimeout of the referenced timer, wsRef.current?.close()
SubtitleUnmount ==
    /\ subtitlePhase = "mounted"
    /\ subtitlePhase' = "unmounted"
    /\ subtitleTimers' = ClearTimeout(subtitleTimers, subtitleTimeoutRef)
    /\ subtitleSocks' = IF subtitleWsRef # 0 /\ subtitleSocks[subtitleWsRef] \in Live
                            THEN [subtitleSocks EXCEPT ![subtitleWsRef] = "CLOSING"]
                            ELSE subtitleSocks
    /\ UNCHANGED <<subtitleWsRef, subtitleTimerSeq, subtitleTimeoutRef, subtitleConnected,
                   subtitleTextVars>>

subtitleRest == <<sessionVars, viewVars, clockVars, configVars, sendVars, renderVars,
                  recordingVars, cameraVars>>

SubtitleNext ==
    \/ SubtitleMount /\ UNCHANGED subtitleRest
    \/ (\E s \in 1..Len(subtitleSocks) : SubtitleOnOpen(s)) /\ UNCHANGED subtitleRest
    \/ (\E s \in 1..Len(subtitleSocks) : SubtitleOnClose(s)) /\ UNCHANGED subtitleRest
    \/ (\E t \in subtitleTimers : SubtitleTimerFire(t)) /\ UNCHANGED subtitleRest
    \/ (\E s \in 1..Len(subtitleSocks), m \in SubtitleMessages : SubtitleOnMessage(s, m))
          /\ UNCHANGED subtitleRest
    \/ SubtitleFade /\ UNCHANGED subtitleRest
    \/ SubtitleUnmount /\ UNCHANGED subtitleRest

SpecSubtitle == Init /\ [][SubtitleNext]_vars

(***************************************************************************)
(* The camera of the store                                                 *)
(***************************************************************************)
CameraPresets == {"full", "bust", "shoulder", "close", "custom"}

CameraTransitions == {"cut", "smooth", "zoom"}

\* zoomMap of setCameraPreset, in tenths
zoomMap == [p \in CameraPresets |->
               CASE p = "full" -> 10
                 [] p = "bust" -> 15
                 [] p = "shoulder" -> 20
                 [] p = "close" -> 25
                 [] p = "custom" -> 10]

\* positions of the zoom slider (0.5 to 3), in tenths
ZoomValues == {5, 15, 22, 30}

\* positions of the offset sliders
OffsetValues == {-100, 0, 100}

\* setCameraTransition called without a duration
NoDuration == -1

\* the durations setCameraTransition is called with
DurationValues == {NoDuration, 100, 500}

\* the store's setCameraZoom without the switch to the custom preset
SetCameraZoom_KeepPreset(zoom) ==
    camera' = [camera EXCEPT !.zoom = zoom]

SetCameraPreset(preset) ==
    camera' = [camera EXCEPT !.preset = preset,
                             !.zoom = IF preset # "custom" THEN zoomMap[preset]
                                                            ELSE camera.zoom]

SetCameraZoom(zoom) ==
    camera' = [camera EXCEPT !.zoom = zoom, !.preset = "custom"]

SetCameraOffset(offsetX, offsetY) ==
    camera' = [camera EXCEPT !.offsetX = offsetX, !.offsetY = offsetY,
                             !.preset = "custom"]

SetCameraTransition(transition, duration) ==
    camera' = [camera EXCEPT !.transition = transition,
                             !.transitionDuration = IF duration # NoDuration
                                                       THEN duration
                                                       ELSE camera.transitionDuration]

cameraRest == <<sessionVars, viewVars, clockVars, configVars, sendVars, renderVars,
                recordingVars, subtitleVars>>

CameraNext ==
    \/ (\E preset \in CameraPresets : SetCameraPreset(preset)) /\ UNCHANGED cameraRest
    \/ (\E zoom \in ZoomValues : SetCameraZoom(zoom)) /\ UNCHANGED cameraRest
    \/ (\E x \in OffsetValues : SetCameraOffset(x, camera.offsetY)) /\ UNCHANGED cameraRest
    \/ (\E y \in OffsetValues : SetCameraOffset(camera.offsetX, y)) /\ UNCHANGED cameraRest
    \/ (\E t \in CameraTransitions, d \in DurationValues : SetCameraTransition(t, d))
          /\ UNCHANGED cameraRest

SpecCamera == Init /\ [][CameraNext]_vars

(***************************************************************************)
(* The settings panels against the store                                   *)
(***************************************************************************)
\* useLobbyStore.setSubtitleText, called by a panel
SetSubtitleText(text) ==
    /\ subtitleText' = text
    /\ UNCHANGED <<live2dParams, expression, backgroundSource, connected>>

configRest == <<phase, socks, wsRef, timers, timerSeq, reconnectTimeoutRef, reconnectAttemptsRef,
                manualSock, msgVars, targetParams, motionVars, interpVars, genVars, clockVars,
                sendVars, renderVars, panelVars>>

\* the setters of nested configuration, each with every partial object of its type
ConfigNext ==
    \/ \E font \in Partial(FontValues) :
          /\ SetSubtitleFont(font)
          /\ lastCall' = [name |-> "setSubtitleFont", patch |-> font]
          /\ UNCHANGED <<storeVars, connected, configRest>>
    \/ \E position \in Partial(PositionValues) :
          /\ SetSubtitlePosition(position)
          /\ lastCall' = [name |-> "setSubtitlePosition", patch |-> position]
          /\ UNCHANGED <<storeVars, connected, configRest>>
    \/ \E bg \in Partial(SubtitleBackgroundValues) :
          /\ SetSubtitleBackground(bg)
          /\ lastCall' = [name |-> "setSubtitleBackground", patch |-> bg]
          /\ UNCHANGED <<storeVars, connected, configRest>>
    \/ \E config \in Partial(PhysicsValues) :
          /\ SetPhysics(config)
          /\ lastCall' = [name |-> "setPhysics", patch |-> config]
          /\ UNCHANGED <<storeVars, connected, configRest>>
    \/ \E text \in {"", "hello"} :
          /\ SetSubtitleText(text)
          /\ lastCall' = NoCall
          /\ UNCHANGED <<subtitleFont, subtitlePosition, subtitleBackground, physics, configRest>>

SpecConfig == Init /\ [][ConfigNext]_vars

\* the message path: an open connection delivering messages to the store and the viewer
MsgNext ==
    \/ (Mount \/ \E s \in 1..Len(socks) : WsOnOpen(s))
            /\ UNCHANGED <<storeVars, msgVars, targetParams, motionVars, interpVars, genVars, extraVars>>
    \/ (\E s \in 1..Len(socks) : \E raw \in Messages : WsOnMessage(s, raw))
            /\ UNCHANGED <<motionVars, interpVars, genVars, extraVars>>
    \/ TargetEffect /\ UNCHANGED <<phase, socks, wsRef, timers, timerSeq,
                                    reconnectTimeoutRef, reconnectAttemptsRef,
                                    manualSock, motionVars, genVars, extraVars>>

SpecMsg == Init /\ [][MsgNext]_vars

\* frames with timestamps arriving in any order on an open connection
OrderNext ==
    \/ (Mount \/ \E s \in 1..Len(socks) : WsOnOpen(s))
            /\ UNCHANGED <<storeVars, msgVars, targetParams, motionVars, interpVars, genVars, extraVars>>
    \/ (\E s \in 1..Len(socks) : \E raw \in OrderMessages : WsOnMessage(s, raw))
            /\ UNCHANGED <<motionVars, interpVars, genVars, extraVars>>
    \/ TargetEffect /\ UNCHANGED <<phase, socks, wsRef, timers, timerSeq,
                                    reconnectTimeoutRef, reconnectAttemptsRef,
                                    manualSock, motionVars, genVars, extraVars>>

SpecOrder == Init /\ [][OrderNext]_vars

\* the stream asking for motions while the viewer that App renders loads its model.  App
\* renders <Live2DViewer params physics smoothing /> without a motion prop, so the
\* viewer's motion stays null here and its motion effect has no name to play
StreamNext ==
    \/ (Mount \/ \E s \in 1..Len(socks) : WsOnOpen(s))
            /\ UNCHANGED <<storeVars, msgVars, targetParams, motionVars, interpVars, genVars, extraVars>>
    \/ (\E s \in 1..Len(socks) : \E raw \in StreamMessages : WsOnMessage(s, raw))
            /\ UNCHANGED <<motionVars, interpVars, genVars, extraVars>>
    \/ TargetEffect /\ UNCHANGED <<phase, socks, wsRef, timers, timerSeq,
                                    reconnectTimeoutRef, reconnectAttemptsRef,
                                    manualSock, motionVars, genVars, extraVars>>
    \/ (\E api \in BOOLEAN : ModelLoaded(api))
            /\ UNCHANGED <<sessionVars, storeVars, msgVars, targetParams, interpVars, genVars, extraVars>>
    \/ ModelLoadFailed
            /\ UNCHANGED <<sessionVars, storeVars, msgVars, targetParams, interpVars, genVars, extraVars>>

SpecStream == Init /\ [][StreamNext]_vars

\* the viewer fed by the stream: messages move the targets, ticks move the current values
ViewNext ==
    \/ (Mount \/ \E s \in 1..Len(socks) : WsOnOpen(s))
            /\ UNCHANGED <<storeVars, msgVars, targetParams, motionVars, interpVars, genVars, extraVars>>
    \/ /\ updates < MaxUpdates
       /\ \E s \in 1..Len(socks) : \E raw \in ViewMessages : WsOnMessage(s, raw)
       /\ updates' = updates + 1
       /\ UNCHANGED <<motionVars, smoothing, currentParams, refTicks, fromZero,
                      rendered, loopDied, genVars, extraVars>>
    \/ TargetEffect /\ UNCHANGED <<phase, socks, wsRef, timers, timerSeq,
                                    reconnectTimeoutRef, reconnectAttemptsRef,
                                    manualSock, motionVars, genVars, extraVars>>
    \/ ((\E api \in BOOLEAN : ModelLoaded(api)) \/ ModelLoadFailed)
            /\ UNCHANGED <<sessionVars, storeVars, msgVars, targetParams, interpVars, genVars, extraVars>>
    \/ (\E s \in Smoothings : SetSmoothing(s))
            /\ UNCHANGED <<sessionVars, storeVars, msgVars, motionVars, genVars, extraVars>>
    \/ (\E d \in Deltas : Tick(d))
            /\ UNCHANGED <<sessionVars, storeVars, msgVars, motionVars, genVars, extraVars>>

SpecView == Init /\ [][ViewNext]_vars

\* elapsed times between two ticks, in units of 0.01 ms: none, 60 Hz, 30 Hz
ConvergeDeltas == {0, RefFrame, 2 * RefFrame}

\* requestAnimationFrame(animationLoop) at the end of every tick: while the loop
\* runs, ticks with a positive elapsed time keep coming
PositiveTick ==
    /\ \E d \in ConvergeDeltas \ {0} : Tick(d)
    /\ UNCHANGED <<sessionVars, storeVars, msgVars, motionVars, genVars, extraVars>>

\* the viewer with a loaded model: targets from the stream, ticks of the loop
ConvergeNext ==
    \/ (Mount \/ \E s \in 1..Len(socks) : WsOnOpen(s))
            /\ UNCHANGED <<storeVars, msgVars, targetParams, motionVars, interpVars, genVars, extraVars>>
    \/ /\ updates < MaxUpdates
       /\ \E s \in 1..Len(socks) : \E raw \in ViewMessages : WsOnMessage(s, raw)
       /\ updates' = updates + 1
       /\ UNCHANGED <<motionVars, smoothing, currentParams, refTicks, fromZero,
                      rendered, loopDied, genVars, extraVars>>
    \/ TargetEffect /\ UNCHANGED <<phase, socks, wsRef, timers, timerSeq,
                                    reconnectTimeoutRef, reconnectAttemptsRef,
                                    manualSock, motionVars, genVars, extraVars>>
    \/ ModelLoaded(TRUE)
            /\ UNCHANGED <<sessionVars, storeVars, msgVars, targetParams, interpVars, genVars, extraVars>>
    \/ (\E s \in Smoothings : SetSmoothing(s))
            /\ UNCHANGED <<sessionVars, storeVars, msgVars, motionVars, genVars, extraVars>>
    \/ (\E d \in ConvergeDeltas : Tick(d))
            /\ UNCHANGED <<sessionVars, storeVars, msgVars, motionVars, genVars, extraVars>>

SpecConverge == Init /\ [][ConvergeNext]_vars /\ WF_vars(PositiveTick)

\* the messages that write targets: a parameters message and frames, one with an expression
WriterMessages ==
    {[BaseMsg EXCEPT !.type = "parameters", !.data = [n \in {"ParamMouthOpenY"} |-> One]]}
    \cup {[BaseMsg EXCEPT !.type = "frame", !.parameters = [n \in {"ParamMouthOpenY"} |-> v],
                          !.expression = e] : v \in {0, One}, e \in {Absent, "happy"}}

\* the writer (handleMessage) against the reader (animationLoop)
WriterNext ==
    \/ (Mount \/ \E s \in 1..Len(socks) : WsOnOpen(s))
            /\ UNCHANGED <<storeVars, msgVars, targetParams, motionVars, interpVars, genVars, extraVars>>
    \/ /\ updates < MaxUpdates + 1
       /\ \E s \in 1..Len(socks) : \E raw \in WriterMessages : WsOnMessage(s, raw)
       /\ updates' = updates + 1
       /\ UNCHANGED <<motionVars, smoothing, currentParams, refTicks, fromZero,
                      rendered, loopDied, genVars, extraVars>>
    \/ TargetEffect /\ UNCHANGED <<phase, socks, wsRef, timers, timerSeq,
                                    reconnectTimeoutRef, reconnectAttemptsRef,
                                    manualSock, motionVars, genVars, extraVars>>
    \/ (\E api \in BOOLEAN : ModelLoaded(api))
            /\ UNCHANGED <<sessionVars, storeVars, msgVars, targetParams, interpVars, genVars, extraVars>>
    \/ (\E d \in {0, RefFrame} : Tick(d))
            /\ UNCHANGED <<sessionVars, storeVars, msgVars, motionVars, genVars, extraVars>>

SpecWriter == Init /\ [][WriterNext]_vars

\* the viewer's motion requests, against the loading of the model
viewerRest == <<sessionVars, storeVars, msgVars, targetParams, interpVars, genVars, extraVars>>

MotionNext ==
    \/ (\E api \in BOOLEAN : ModelLoaded(api)) /\ UNCHANGED viewerRest
    \/ ModelLoadFailed /\ UNCHANGED viewerRest
    \/ (\E name \in MotionNames : MotionEffect(name)) /\ UNCHANGED viewerRest
    \/ MotionCleared /\ UNCHANGED viewerRest
    \/ (\E i \in 1..Len(motionReqs) : PlayMotionSettled(i)) /\ UNCHANGED viewerRest

SpecMotion == Init /\ [][MotionNext]_vars


(***************************************************************************)
(* Session properties                                                      *)
(***************************************************************************)
\* sockets whose connection attempt ended in a close event without ever opening
FailedAttempts == {s \in 1..Len(socks) : socks[s].readyState = "CLOSED" /\ ~socks[s].opened}

\* a run in which no attempt has opened yet and neither reconnect() nor the cleanup ran
OnlyFailures ==
    /\ phase = "mounted"
    /\ manualSock = 0
    /\ \A s \in 1..Len(socks) : ~socks[s].opened

\* no retry timer pending and no connection in progress
TerminallyClosed == timers = {} /\ \A s \in 1..Len(socks) : socks[s].readyState = "CLOSED"

C2_AtMostOneLive == Cardinality(LiveSockets) <= 1

\* C3: while the connection attempt started by reconnect() has not itself failed, the
\* attempt counter is 0 and no automatic retry is scheduled (the close event of the
\* connection reconnect() closed neither counts nor schedules one).
C3_ManualReconnectResets ==
    (manualSock # 0 /\ socks[manualSock].readyState \in Live)
        => (reconnectAttemptsRef = 0 /\ timers = {})

\* C4: after the cleanup on unmount the connection is closed, no retry timer is
\* pending and no WebSocket of the session is connecting or open.
C4_TeardownFinal ==
    phase = "unmounted" => (timers = {} /\ LiveSockets = {})

\* C7: every connection that reached the open state has sent exactly one get_status,
\* as the first action on that connection; a connection that never opened sent nothing.
C7_SnapshotOnOpen ==
    \A s \in 1..Len(socks) :
        /\ (socks[s].readyState = "OPEN" => socks[s].opened)
        /\ socks[s].opened =>
              /\ socks[s].sent # <<>>
              /\ socks[s].sent[1] = "get_status"
              /\ \A i \in 2..Len(socks[s].sent) : socks[s].sent[i] # "get_status"
        /\ ~socks[s].opened => socks[s].sent = <<>>

\* a reconnected socket that sent its snapshot request and then a user action
C7_Witness ==
    \E s \in 2..Len(socks) :
        /\ socks[s].readyState = "OPEN"
        /\ socks[s].sent = <<"get_status", "set_expression">>


(***************************************************************************)
(* Message handling properties: what handleMessage makes of every message  *)
(* in every store the messages before it can have produced                 *)
(***************************************************************************)
\* the parameter map a parameters or frame message carries
Payload(raw) == IF MessageType(raw) = "parameters" THEN raw.data ELSE raw.parameters

FrameLike == {raw \in Messages : MessageKind(raw) \in {"parameters", "frame"}}

Harmless == {raw \in Messages : MessageKind(raw) \in {"malformed", "unknown"}}

\* C5: after each parameters or frame message, every parameter the message mentions
\* holds the message's value and every other parameter holds the value it had before.
C5_PartialUpdate ==
    \A raw \in FrameLike :
        LET after == HandleMessage(Store, raw).live2dParams
        IN  /\ \A n \in DOMAIN Payload(raw) :
                  n \in DOMAIN after /\ after[n] = Payload(raw)[n]
            /\ \A n \in DOMAIN live2dParams \ DOMAIN Payload(raw) :
                  n \in DOMAIN after /\ after[n] = live2dParams[n]

\* a parameters or frame message arrived that left a parameter an earlier message had
\* set (the eye is no longer at its seed) and set another
C5_Witness ==
    /\ LastKind \in {"parameters", "frame"}
    /\ live2dParams["ParamEyeLOpen"] = Half
    /\ live2dParams["ParamMouthOpenY"] = One
    /\ "ParamAngleX" \in DOMAIN live2dParams

\* C6: a message that is not valid JSON, or whose type is none of the seven known ones,
\* makes the handler return without raising and leaves the parameters, the expression,
\* the subtitle text, the background source and the connection flag as they were; the
\* handler has raised on no message so far, so later messages are handled like the first.
C6_UnknownHarmless ==
    /\ \A raw \in Harmless : HandleMessage(Store, raw) = Store /\ ~HandlerRaises(raw)
    /\ ~handlerRaised

\* an unknown or malformed message handled on a store earlier messages had filled
C6_Witness ==
    /\ LastKind \in {"malformed", "unknown"}
    /\ live2dParams # DefaultParams
    /\ expression = "happy"
    /\ subtitleText = "hello"
    /\ backgroundSource = "#ffffff"
    /\ connected

\* C9: handling a parameters or frame message a second time, right after the first,
\* changes neither the parameters (the viewer's targets are a copy of them) nor the
\* expression the first handling left.
C9_DuplicateIdempotent ==
    \A raw \in FrameLike :
        LET once == HandleMessage(Store, raw)
            twice == HandleMessage(once, raw)
        IN  /\ twice.live2dParams = once.live2dParams
            /\ twice.expression = once.expression

\* the same frame, carrying parameters and an expression, was handled twice in a row
\* and the viewer has taken the targets over
C9_Witness ==
    /\ repeated
    /\ IsTracked(lastMsg)
    /\ lastMsg.parameters # NoParams
    /\ targetParams = live2dParams

(***************************************************************************)
(* Properties of the viewer                                                *)
(***************************************************************************)
\* C8: every named motion request leads to a call of onMotionComplete.  A
\* request the effect dropped can never be completed afterwards (no action
\* leaves "dropped": the effect does not run again when the model arrives), so
\* the claim requires that no request is ever dropped.
C8_MotionCompletionSignalled ==
    \A i \in 1..Len(motionReqs) : motionReqs[i].state # "dropped"

\* C10: with smoothing 1.0 and ticks of 16.67 ms, two ticks after the mouth
\* target moved to 1.0 with the current value at 0.0 the current value is
\* within 0.001 of the target
C10_ConvergenceBound ==
    (smoothing = 100 /\ fromZero /\ refTicks >= 2) =>
        Abs(currentParams["ParamMouthOpenY"] - targetParams["ParamMouthOpenY"]) <= Epsilon

C10_Witness ==
    /\ smoothing = 100
    /\ fromZero
    /\ refTicks = 2
    /\ targetParams["ParamMouthOpenY"] = One
    /\ currentParams["ParamMouthOpenY"] = One

\* min(1, smoothing * d / 16.67) as a fraction of 100 * RefFrame
Factor(s, d) == IF s * d < 100 * RefFrame THEN s * d ELSE 100 * RefFrame

\* C11: a render tick with elapsed time d moves every parameter that has a
\* target and a current value by (target - current) * min(1, smoothing * d / 16.67)
\* when they differ by more than 0.001, and sets it to the target otherwise
C11_InterpolationStep ==
    [][\A d \in Deltas : Tick(d) =>
          \A n \in DOMAIN targetParams \cap DOMAIN currentParams :
              LET diff == targetParams[n] - currentParams[n]
              IN  currentParams'[n] =
                      IF Abs(diff) > Epsilon
                          THEN currentParams[n] + MulDiv(diff, Factor(smoothing, d), 100 * RefFrame)
                          ELSE targetParams[n]]_vars

\* a tick of 16.67 ms at smoothing 0.25 has moved the mouth a quarter of the way from 0.0 to 1.0
C11_Witness ==
    /\ modelLoad = "ready"
    /\ smoothing = 25
    /\ refTicks = 1
    /\ "ParamMouthOpenY" \in DOMAIN currentParams
    /\ targetParams["ParamMouthOpenY"] = One
    /\ currentParams["ParamMouthOpenY"] * 4 = One

(***************************************************************************)
(* Properties of the attempt counter                                       *)
(***************************************************************************)
\* C12: in the state right after the open event of any connection of the session
\* the attempt counter is 0 (whatever it was before), so the failures after it
\* count from 0 again
C12_CounterResetOnOpen ==
    [][\A s \in 1..Len(socks) : WsOnOpen(s) => reconnectAttemptsRef' = 0]_vars

\* a retry opened after the initial attempt failed: the counter went from 1 to 0
C12_Witness ==
    /\ manualSock = 0
    /\ Len(socks) = 2
    /\ ~socks[1].opened
    /\ socks[2].readyState = "OPEN"
    /\ reconnectAttemptsRef = 0

\* C13: the attempt counter stays within 0..maxReconnectAttempts in every
\* reachable state, and no close event raises it by more than 1
C13_CounterBounds ==
    /\ [](reconnectAttemptsRef \in 0..MaxReconnectAttempts)
    /\ [][\A s \in 1..Len(socks) :
              WsOnClose(s) => reconnectAttemptsRef' <= reconnectAttemptsRef + 1]_vars

\* the counter at its maximum after a close event that could not raise it further
C13_Witness ==
    /\ phase = "mounted"
    /\ reconnectAttemptsRef = MaxReconnectAttempts
    /\ Len(socks) > MaxReconnectAttempts
    /\ \A s \in 1..Len(socks) : socks[s].readyState = "CLOSED"
    /\ timers = {}

(***************************************************************************)
(* Properties of the order of arrival                                      *)
(***************************************************************************)
\* C14: whatever the timestamps of the frames that arrived, every parameter the
\* store holds has the value of the latest arrived message that mentions it (the
\* seeded default when none did): no frame is reordered or rejected by timestamp
C14_ArrivalOrder ==
    /\ DOMAIN live2dParams = DOMAIN lastSeen
    /\ \A n \in DOMAIN lastSeen : live2dParams[n] = lastSeen[n]

\* a frame stamped 1 arrived after a frame stamped 2 and its mouth value is held
C14_Witness ==
    /\ outOfOrder
    /\ lastTs = 1
    /\ lastSeen["ParamMouthOpenY"] = Half
    /\ live2dParams["ParamMouthOpenY"] = Half

(***************************************************************************)
(* Properties of the renderer                                              *)
(***************************************************************************)
\* C15: when the loaded model rejects a parameter name, every other parameter the
\* viewer holds has been written to the renderer with its current value by the
\* tick that computed it, and no exception has stopped the render loop
C15_PerParameterDegradation ==
    modelLoad = "ready" =>
        /\ ~loopDied
        /\ \A n \in DOMAIN currentParams \ rejected :
               n \in DOMAIN rendered /\ rendered[n] = currentParams[n]
        /\ DOMAIN rendered \cap rejected = {}

\* two ticks in a row with a rejected name among the held ones: the mouth was written
C15_Witness ==
    /\ rejected \cap DOMAIN currentParams # {}
    /\ refTicks = 2
    /\ ~loopDied
    /\ "ParamMouthOpenY" \in DOMAIN rendered
    /\ rendered["ParamMouthOpenY"] = One

(***************************************************************************)
(* Properties of motion playback over the stream                           *)
(***************************************************************************)
\* the motion names handed to model.motion
Dispatched ==
    {motionReqs[i].name : i \in {j \in 1..Len(motionReqs) :
                                     motionReqs[j].state \in {"playing", "completed"}}}

\* C16: a motion named by a motion message or by a frame's motion field is
\* dispatched to the renderer's motion API.  The handler is synchronous and the
\* viewer's effects run with the render that follows a store update, so once the
\* model is loaded with a motion API and the viewer's effects have caught up with
\* the store, every motion asked for has been dispatched.
C16_MotionOverStream ==
    (modelLoad = "ready" /\ motionApi /\ targetParams = live2dParams)
        => motionAsked \subseteq Dispatched

(***************************************************************************)
(* Properties of the held pose                                             *)
(***************************************************************************)
\* C17: the parameter names the consumer holds never shrink: the seeded defaults are
\* held in every reachable state, no message (of any kind) removes a name the store
\* holds, and the viewer's targets, a copy of the store, hold nothing the store lacks
C17_AlwaysDefinedPose ==
    /\ DOMAIN DefaultParams \subseteq DOMAIN live2dParams
    /\ DOMAIN lastSeen \subseteq DOMAIN live2dParams
    /\ DOMAIN targetParams \subseteq DOMAIN live2dParams
    /\ \A raw \in Messages :
          DOMAIN live2dParams \subseteq DOMAIN HandleMessage(Store, raw).live2dParams

\* a name outside the defaults was set, then a frame that does not mention it
\* arrived: the name is still held, by the store and by the viewer
C17_Witness ==
    /\ IsTracked(lastMsg)
    /\ DOMAIN lastMsg.parameters = {"ParamMouthOpenY"}
    /\ "ParamAngleX" \in DOMAIN live2dParams
    /\ "ParamAngleX" \in DOMAIN targetParams

(***************************************************************************)
(* Properties of the terminal state                                        *)
(***************************************************************************)
\* the retries are used up: the counter is at its maximum, no retry timer is pending
\* and no connection is in progress
Exhausted ==
    /\ phase = "mounted"
    /\ reconnectAttemptsRef = MaxReconnectAttempts
    /\ Len(socks) > 0
    /\ TerminallyClosed

C19_ExpressionValid == expression \in Expressions

C21_TimerCancellation ==
    [][(Reconnect \/ Teardown) => timers' = {}]_vars

\* C22: after the open connection dropped with retries left, and until reconnect() or
\* the cleanup runs, a retry timer is pending whose callback will create a socket, and
\* no socket is created before the reconnect interval has elapsed since the drop
C22_AutomaticRecovery ==
    /\ [](droppedAt >= 0 => (timers # {} /\ ConnectCreates(socks, wsRef)))
    /\ [][(droppedAt >= 0 /\ ~Reconnect /\ Len(socks') > Len(socks))
              => now >= droppedAt + ReconnectInterval]_vars

Patched(before, after, p) ==
    /\ DOMAIN after = DOMAIN before
    /\ \A f \in DOMAIN before : after[f] = IF f \in DOMAIN p THEN p[f] ELSE before[f]

\* C24: setSubtitleFont, setSubtitlePosition, setSubtitleBackground and setPhysics,
\* called with a partial object, change exactly the fields the object names; the
\* other fields of the nested object and every other slice of the store stay
C24_FieldByFieldPatching ==
    [][lastCall'.name # "none" =>
          LET p == lastCall'.patch
              n == lastCall'.name
          IN  /\ IF n = "setSubtitleFont" THEN Patched(subtitleFont, subtitleFont', p)
                                          ELSE subtitleFont' = subtitleFont
              /\ IF n = "setSubtitlePosition" THEN Patched(subtitlePosition, subtitlePosition', p)
                                              ELSE subtitlePosition' = subtitlePosition
              /\ IF n = "setSubtitleBackground"
                     THEN Patched(subtitleBackground, subtitleBackground', p)
                     ELSE subtitleBackground' = subtitleBackground
              /\ IF n = "setPhysics" THEN Patched(physics, physics', p)
                                     ELSE physics' = physics
              /\ UNCHANGED <<storeVars, connected>>]_vars

C24_Witness ==
    /\ lastCall = [name |-> "setSubtitleFont", patch |-> [size |-> 48]]
    /\ subtitleFont = [DefaultFont EXCEPT !.size = 48, !.family = "Kosugi Maru"]
    /\ subtitlePosition = [DefaultPosition EXCEPT !.vertical = "top"]
    /\ physics = [DefaultPhysics EXCEPT !.gravity = <<1, 0>>]
    /\ subtitleText = "hello"

(***************************************************************************)
(* Properties of the connection flag and of sendAction                     *)
(***************************************************************************)
\* C25: after every handler of the hook, connected is true exactly when the socket
\* in wsRef, the one sendAction writes to, is OPEN
C25_ConnectedFlagAgrees ==
    connected <=> (wsRef # 0 /\ socks[wsRef].readyState = "OPEN")

\* the actions a socket was given to transmit, the get_status of onopen aside
RECURSIVE ActionsIn(_)
ActionsIn(sent) ==
    IF sent = <<>> THEN 0
    ELSE (IF Head(sent) \in FrontendAction THEN 1 ELSE 0) + ActionsIn(Tail(sent))

RECURSIVE Transmitted(_)
Transmitted(ss) == IF ss = <<>> THEN 0 ELSE ActionsIn(Head(ss).sent) + Transmitted(Tail(ss))

\* C26: an action passed to sendAction while the socket in wsRef is not OPEN is
\* discarded: the sockets were given exactly the actions of the calls made while it
\* was OPEN, whatever connections opened after a dropped call
C26_NoBuffering ==
    Transmitted(socks) = accepted

C26_Witness ==
    /\ dropped = 1
    /\ accepted = 1
    /\ Len(socks) = 2
    /\ socks[1].readyState = "CLOSED"
    /\ socks[1].sent = <<"get_status">>
    /\ socks[2].sent = <<"get_status", "set_expression">>

(***************************************************************************)
(* Properties of the interpolation over many ticks                         *)
(***************************************************************************)
\* every target has a current value and the two are equal
Converged ==
    \A n \in DOMAIN targetParams :
        n \in DOMAIN currentParams /\ currentParams[n] = targetParams[n]

\* C27: with the targets fixed and ticks of positive elapsed time coming, after
\* finitely many ticks every current value equals its target exactly, and it stays
\* equal until the target changes
C27_EventualConvergence ==
    /\ (modelLoad = "ready") ~> Converged
    /\ [][(Converged /\ targetParams' = targetParams) => Converged']_vars

C27_Witness ==
    /\ Converged
    /\ updates = 1
    /\ smoothing = 25
    /\ refTicks = -1
    /\ fromZero
    /\ targetParams # NoParams
    /\ targetParams["ParamMouthOpenY"] = One
    /\ rendered = currentParams

\* x lies between a and b, the ends included
Between(x, a, b) == (a <= x /\ x <= b) \/ (b <= x /\ x <= a)

\* C28: whatever the elapsed time, a tick leaves every current value between the
\* value it had before the tick and its target, and, the target unchanged, never
\* farther from the target than it was
C28_NoOvershoot ==
    [][targetParams' = targetParams =>
          \A n \in DOMAIN targetParams \cap DOMAIN currentParams :
              /\ n \in DOMAIN currentParams'
              /\ Between(currentParams'[n], currentParams[n], targetParams[n])
              /\ Abs(targetParams[n] - currentParams'[n])
                     <= Abs(targetParams[n] - currentParams[n])]_vars

C28_Witness ==
    /\ smoothing = 25
    /\ refTicks = -1
    /\ fromZero
    /\ targetParams # NoParams
    /\ "ParamMouthOpenY" \in DOMAIN currentParams
    /\ targetParams["ParamMouthOpenY"] = One
    /\ currentParams["ParamMouthOpenY"] \notin {0, Half, One}
    /\ rendered = currentParams

(***************************************************************************)
(* Properties of the values the hook returns                               *)
(***************************************************************************)
\* C29: the reconnectAttempts the hook exposes equals the counter in
\* reconnectAttemptsRef after every handler that incremented or reset it
C29_ReportedRetryCountCurrent ==
    exposedAttempts = reconnectAttemptsRef

(***************************************************************************)
(* Properties of the recording panel                                       *)
(***************************************************************************)
\* C30: once the stored status of the recording is completed, failed or cancelled,
\* no poll response sets it back to pending or running
C30_TerminalStatusSticky ==
    [][(session \in TerminalStatus) => ~(session' \in ActiveStatus)]_vars

(***************************************************************************)
(* Properties of the subtitle overlay                                      *)
(***************************************************************************)
\* C31: after SubtitleDisplay unmounts, the WebSocket it refers to is closing or
\* closed and no new subtitle WebSocket is created
C31_SubtitleSocketTeardown ==
    /\ [](subtitlePhase = "unmounted" =>
              (subtitleWsRef # 0 => subtitleSocks[subtitleWsRef] \notin Live))
    /\ [][(subtitlePhase = "unmounted") => (Len(subtitleSocks') = Len(subtitleSocks))]_vars

(***************************************************************************)
(* Properties of the camera                                                *)
(***************************************************************************)
\* C32: after any sequence of setCameraPreset, setCameraZoom, setCameraOffset and
\* setCameraTransition, a camera whose preset is not custom has that preset's zoom
\* (full 1.0, bust 1.5, shoulder 2.0, close 2.5)
C32_PresetZoomConsistent ==
    camera.preset # "custom" =>
        camera.zoom = (CASE camera.preset = "full" -> 10
                         [] camera.preset = "bust" -> 15
                         [] camera.preset = "shoulder" -> 20
                         [] camera.preset = "close" -> 25)

\* a preset chosen after the zoom, the offset and the transition were set by hand
C32_Witness ==
    /\ camera.preset = "close"
    /\ camera.zoom = 25
    /\ camera.offsetX = 100
    /\ camera.offsetY = -100
    /\ camera.transition = "cut"
    /\ camera.transitionDuration = 100

====
